---- MODULE Spec2Model ----
(***************************************************************************)
(* A model of cereal.py: the Cereal base class (presence tracking,         *)
(* canonical form, equality, deep copy), the type-hint directed            *)
(* reconstruction of nested entities, and the two entity classes Inner and *)
(* Outer that the module's __main__ block defines.                         *)
(*                                                                         *)
(* Python values are records tagged by "kind":                             *)
(*   none, num, bool, str, enum (a member of an Enum class),               *)
(*   dict (a raw mapping: d is a function from keys to values),            *)
(*   list (s is a sequence of values),                                     *)
(*   obj  (a live Cereal instance: type is its class name and d is its     *)
(*         __dict__, the "_cereal_meta" entry included),                   *)
(*   error (an exception that left the operation: type is its class).      *)
(* Values have no identity: two entities with equal content are the same   *)
(* value, so the model covers object graphs without shared sub-objects.    *)
(***************************************************************************)
EXTENDS Integers, Sequences, FiniteSets, TLC

(* ---------------------------------------------------------------- values *)

None == [kind |-> "none"]
Num(n) == [kind |-> "num", v |-> n]
Bool(b) == [kind |-> "bool", v |-> b]
Str(s) == [kind |-> "str", v |-> s]
EnumMember(e, n) == [kind |-> "enum", enum |-> e, name |-> n]
Dict(f) == [kind |-> "dict", d |-> f]
List(s) == [kind |-> "list", s |-> s]
Obj(t, f) == [kind |-> "obj", type |-> t, d |-> f]
Error(t) == [kind |-> "error", type |-> t]

EmptyMap == [k \in {} |-> None]

(* Whether v is an exception rather than a value or a __dict__ (no          *)
(* attribute of the model is called "kind").                                *)
IsError(v) == "kind" \in DOMAIN v /\ v.kind = "error"

(* dict.get(k, default) *)
Get(f, k, default) == IF k \in DOMAIN f THEN f[k] ELSE default

(* {**f, k: v} : item assignment on a mapping *)
Put(f, k, v) == [x \in DOMAIN f \cup {k} |-> IF x = k THEN v ELSE f[x]]

(* dict.update(g) *)
Update(f, g) == [x \in DOMAIN f \cup DOMAIN g |-> IF x \in DOMAIN g THEN g[x] ELSE f[x]]

(* the mapping without the keys of ks *)
Without(f, ks) == [x \in DOMAIN f \ ks |-> f[x]]

Range(s) == {s[i] : i \in DOMAIN s}

(* ------------------------------------------------------- class constants *)

CEREAL_META == "_cereal_meta"
MISSING_PROPERTIES == "missing_properties"
EXTRA_PROPERTIES == "extra_properties"
CEREAL_TYPE == "cereal_type"
OMIT_NULL_IN_SERIAL == TRUE

(* The subclasses of Cereal and of Enum that the module defines. *)
CerealClasses == {"Inner", "Outer"}
EnumClasses == {"TestEnum"}
TestEnumMembers == {"thing1", "thing2"}

(* Every attribute name the model uses, in the order Python's sorted()      *)
(* gives them (by code point: "_" sorts before the lower-case letters).     *)
KeyOrder ==
  << "_bval", "_cereal_meta", "extra_value", "inner1", "inner2", "inner3",
     "inners", "note", "thing", "value", "value2" >>

(* sorted(S) for a set S of attribute names *)
sorted(S) == SelectSeq(KeyOrder, LAMBDA k : k \in S)

(* list.remove(x): drops the first occurrence; a ValueError when x is not   *)
(* in the list is caught by the caller (lines 236-243), leaving the list.   *)
RECURSIVE remove(_, _)
remove(s, x) ==
  IF s = << >> THEN << >>
  ELSE IF Head(s) = x THEN Tail(s)
  ELSE << Head(s) >> \o remove(Tail(s), x)

(* ------------------------------------------------------------ type hints *)
(* A type hint is a record tagged by h: a class (Inner, Outer, TestEnum,    *)
(* int, NoneType), typing.Union[...] (Optional[X] is Union[X, NoneType]),   *)
(* typing.List[...], or a TypeVar with constraints.                         *)

Class(n) == [h |-> "class", name |-> n]
NoneType == Class("NoneType")
Union(args) == [h |-> "Union", args |-> args]
Optional(x) == Union(<< x, NoneType >>)
ListOf(args) == [h |-> "List", args |-> args]
TypeVar(cs) == [h |-> "TypeVar", constraints |-> cs]

(* inspect.isclass(t) and issubclass(t, Cereal) *)
IsCerealClass(t) == t.h = "class" /\ t.name \in CerealClasses
(* inspect.isclass(t) and issubclass(t, Enum) *)
IsEnumClass(t) == t.h = "class" /\ t.name \in EnumClasses

(* ------------------------------------------------------ Cereal: presence *)

(* The metadata block __init__ stores under CEREAL_META (lines 211-216). *)
NewMeta(t) ==
  Dict([k \in {MISSING_PROPERTIES, EXTRA_PROPERTIES, CEREAL_TYPE} |->
          IF k = CEREAL_TYPE THEN Str(t) ELSE List(<< >>)])

(* The property accessors: the list of names, read out of the metadata.    *)
(* self is the instance's __dict__.                                        *)
NamesOf(l) == [i \in DOMAIN l.s |-> l.s[i].v]
missing_properties(self) == NamesOf(self[CEREAL_META].d[MISSING_PROPERTIES])
extra_properties(self) == NamesOf(self[CEREAL_META].d[EXTRA_PROPERTIES])

(* The metadata with the two lists replaced by the names in ms and es. *)
WithLists(self, ms, es) ==
  Put(self, CEREAL_META,
      Dict(Put(Put(self[CEREAL_META].d,
                   MISSING_PROPERTIES, List([i \in DOMAIN ms |-> Str(ms[i])])),
               EXTRA_PROPERTIES, List([i \in DOMAIN es |-> Str(es[i])]))))

(* Cereal.__setattr__: once the metadata exists, the key leaves both lists; *)
(* then the attribute is set.                                               *)
setattr_tracked(self, key, value) ==
  Put(WithLists(self, remove(missing_properties(self), key),
                      remove(extra_properties(self), key)),
      key, value)

(* A faulty variant of __setattr__: only a non-null value clears the key. *)
setattr_nonnull_only(self, key, value) ==
  IF CEREAL_META \in DOMAIN self /\ value # None
  THEN setattr_tracked(self, key, value)
  ELSE Put(self, key, value)

(* A faulty variant of __setattr__: the key leaves extra_properties only. *)
setattr_extra_only(self, key, value) ==
  IF CEREAL_META \in DOMAIN self
  THEN Put(WithLists(self, missing_properties(self),
                           remove(extra_properties(self), key)),
           key, value)
  ELSE Put(self, key, value)

__setattr__(self, key, value) ==
  IF CEREAL_META \in DOMAIN self
  THEN setattr_tracked(self, key, value)
  ELSE Put(self, key, value)

(* A faulty variant of _load_check: input keys count as passed even when null. *)
load_check_counts_null(self, d) ==
  LET defd_attribs == DOMAIN self
      pass_attribs == DOMAIN d \cup {k \in defd_attribs : self[k] # None}
      extra == pass_attribs \ defd_attribs
      missing == (defd_attribs \ pass_attribs) \ {CEREAL_META}
  IN  WithLists(self, missing_properties(self) \o sorted(missing),
                      extra_properties(self) \o sorted(extra))

(* Cereal._load_check: defd_attribs is the instance's __dict__ keys (the    *)
(* metadata key is already among them), pass_attribs the non-null input     *)
(* keys and the non-null defined attributes.                                *)
_load_check(self, d) ==
  LET defd_attribs == DOMAIN self
      pass_attribs == {k \in DOMAIN d : d[k] # None}
                        \cup {k \in defd_attribs : self[k] # None}
      extra == pass_attribs \ defd_attribs
      missing == (defd_attribs \ pass_attribs) \ {CEREAL_META}
  IN  WithLists(self, missing_properties(self) \o sorted(missing),
                      extra_properties(self) \o sorted(extra))

(* A faulty variant of _update: the input is copied attribute by attribute through  *)
(* __setattr__, so every copied key leaves the presence lists.              *)
RECURSIVE update_by_setattr(_, _)
update_by_setattr(self, kwargs) ==
  IF DOMAIN kwargs = {} THEN self
  ELSE LET k == CHOOSE x \in DOMAIN kwargs : TRUE
       IN  update_by_setattr(__setattr__(self, k, kwargs[k]), Without(kwargs, {k}))

(* Cereal._update: self.__dict__.update(kwargs), which bypasses __setattr__. *)
_update(self, kwargs) == Update(self, kwargs)

(* Cereal.__init__ on an instance of class t whose __dict__ is self (what   *)
(* the subclass assigned before calling the base constructor).        *)
Cereal__init__(t, self, kwargs) ==
  LET s1 == Put(self, CEREAL_META, NewMeta(t))
      s2 == _load_check(s1, kwargs)
      kw == Without(kwargs, {CEREAL_META})
  IN  _update(s2, kw)

(* ----------------------------------------------------- Cereal: canonical *)

(* A faulty variant of to_json: null attributes are kept. *)
to_json_keep_null(self) == self

(* A faulty variant of to_json: the metadata block is left out. *)
to_json_no_meta(self) ==
  [k \in {x \in DOMAIN self : self[x] # None /\ x # CEREAL_META} |-> self[k]]

(* Cereal.to_json: the __dict__ without its null entries. *)
to_json(self) ==
  IF OMIT_NULL_IN_SERIAL
  THEN [k \in {x \in DOMAIN self : self[x] # None} |-> self[k]]
  ELSE self

(* json.loads(json.dumps(v, cls=CerealEncoder)): the JSON tree of v. The    *)
(* encoder turns a Cereal into its to_json() mapping and an Enum member     *)
(* into its name, and recurses through mappings and lists. Mappings are     *)
(* unordered here, which is the normal form sort_keys=True gives a text.    *)
RECURSIVE dumps(_)
dumps(v) ==
  CASE v.kind = "obj" ->
         LET j == to_json(v.d) IN Dict([k \in DOMAIN j |-> dumps(j[k])])
    [] v.kind = "enum" -> Str(v.name)
    [] v.kind = "dict" -> Dict([k \in DOMAIN v.d |-> dumps(v.d[k])])
    [] v.kind = "list" -> List([i \in DOMAIN v.s |-> dumps(v.s[i])])
    [] OTHER -> v

(* Cereal.__eq__ *)
__eq__(self, other) ==
  IF other.kind # "obj" THEN Error("NotImplementedError")
  ELSE Bool(dumps(self) = dumps(other))

(* -------------------------------------------------- reconstruction engine *)

RECURSIVE Construct(_, _)
RECURSIVE recursive_auto_deserialize_hinted_nested(_, _)

(* The first hint of the sequence that is a Cereal class named n, as the    *)
(* loop of lines 111-113 finds it; << >> when there is none.                *)
RECURSIVE first_match(_, _)
first_match(unwrapped_hints, n) ==
  IF unwrapped_hints = << >> THEN << >>
  ELSE IF IsCerealClass(Head(unwrapped_hints)) /\ Head(unwrapped_hints).name = n
       THEN << Head(unwrapped_hints) >>
       ELSE first_match(Tail(unwrapped_hints), n)

(* A faulty variant of try_deserialize_cereal_type: the first Cereal hint is        *)
(* instantiated whatever the tag says.                                      *)
try_deserialize_first_hint(v, unwrapped_hints) ==
  LET cereal_type == Get(Get(v.d, CEREAL_META, Dict(EmptyMap)).d, CEREAL_TYPE, None)
      cs == SelectSeq(unwrapped_hints, IsCerealClass)
  IN  IF cereal_type = None THEN v
      ELSE IF cs # << >> THEN Construct(cs[1].name, v.d)
      ELSE Error("CerealError")

(* A faulty variant of try_deserialize_cereal_type: an untagged mapping is handed   *)
(* to the first Cereal hint's constructor.                                  *)
try_deserialize_untagged_too(v, unwrapped_hints) ==
  LET cereal_type == Get(Get(v.d, CEREAL_META, Dict(EmptyMap)).d, CEREAL_TYPE, None)
      cs == SelectSeq(unwrapped_hints, IsCerealClass)
      m == IF cereal_type = None THEN << >>
           ELSE first_match(unwrapped_hints, cereal_type.v)
  IN  IF cereal_type = None
      THEN (IF cs # << >> THEN Construct(cs[1].name, v.d) ELSE v)
      ELSE IF m # << >> THEN Construct(m[1].name, v.d)
      ELSE Error("CerealError")

(* Cereal.try_deserialize_cereal_type: v is a raw mapping. Its tag is read  *)
(* out of its metadata entry; a metadata entry that is no mapping has no    *)
(* .get and raises AttributeError.                                          *)
try_deserialize_cereal_type(v, unwrapped_hints) ==
  LET meta == Get(v.d, CEREAL_META, Dict(EmptyMap))
  IN  IF meta.kind # "dict" THEN Error("AttributeError")
      ELSE LET cereal_type == Get(meta.d, CEREAL_TYPE, None)
           IN  IF cereal_type # None
               THEN LET m == first_match(unwrapped_hints, cereal_type.v)
                    IN  IF m # << >> THEN Construct(m[1].name, v.d)
                        ELSE Error("CerealError")
               ELSE v

(* The list comprehension of line 147: the elements in order, the first     *)
(* exception leaving the comprehension.                                     *)
RECURSIVE deserialize_each(_, _)
deserialize_each(s, hint) ==
  IF s = << >> THEN List(<< >>)
  ELSE LET x == recursive_auto_deserialize_hinted_nested(Head(s), hint)
       IN  IF IsError(x) THEN x
           ELSE LET rest == deserialize_each(Tail(s), hint)
                IN  IF IsError(rest) THEN rest ELSE List(<< x >> \o rest.s)

(* Enum lookup by name, uw[v]: a KeyError when no member has the name. *)
enum_lookup(uw, name) ==
  IF uw.name = "TestEnum" /\ name \in TestEnumMembers
  THEN EnumMember(uw.name, name)
  ELSE Error("KeyError")

(* A faulty variant of recursive_auto_deserialize_hinted_nested: the Enum branch    *)
(* does not ask whether the value is a string, so it looks up whatever it   *)
(* is given; only a member's name is a key of the Enum.                     *)
deserialize_enum_unchecked(v, unwrapped_hint) ==
  LET uw == unwrapped_hint IN
  IF uw.h = "Union"
  THEN LET uwa == uw.args IN
       IF Len(uwa) = 2 /\ uwa[1] # NoneType /\ uwa[2] = NoneType
       THEN recursive_auto_deserialize_hinted_nested(v, uwa[1])
       ELSE IF v.kind = "dict" THEN try_deserialize_cereal_type(v, uwa)
       ELSE v
  ELSE IF v.kind = "list"
  THEN IF uw.h = "List"
       THEN LET uwa == uw.args IN
            IF Len(uwa) # 1 THEN Error("CerealError")
            ELSE deserialize_each(v.s, uwa[1])
       ELSE v
  ELSE IF IsEnumClass(uw)
  THEN (IF v.kind = "str" THEN enum_lookup(uw, v.v) ELSE Error("KeyError"))
  ELSE IF v.kind = "dict"
  THEN IF uw.h = "TypeVar" /\ Len(uw.constraints) > 0
       THEN try_deserialize_cereal_type(v, uw.constraints)
       ELSE try_deserialize_cereal_type(v, << uw >>)
  ELSE v

(* Cereal.recursive_auto_deserialize_hinted_nested. No hint of the model    *)
(* is an ndarray class (lines 149-150) or a generic Cereal class (lines     *)
(* 172-173), so those two branches are never taken.                         *)
recursive_auto_deserialize_hinted_nested(v, unwrapped_hint) ==
  LET uw == unwrapped_hint IN
  IF uw.h = "Union"
  THEN LET uwa == uw.args IN
       IF Len(uwa) = 2 /\ uwa[1] # NoneType /\ uwa[2] = NoneType
       THEN recursive_auto_deserialize_hinted_nested(v, uwa[1])
       ELSE IF v.kind = "dict" THEN try_deserialize_cereal_type(v, uwa)
       ELSE v
  ELSE IF v.kind = "list"
  THEN IF uw.h = "List"
       THEN LET uwa == uw.args IN
            IF Len(uwa) # 1 THEN Error("CerealError")
            ELSE deserialize_each(v.s, uwa[1])
       ELSE v
  ELSE IF v.kind = "str" /\ IsEnumClass(uw)
  THEN enum_lookup(uw, v.v)
  ELSE IF v.kind = "dict"
  THEN IF uw.h = "TypeVar" /\ Len(uw.constraints) > 0
       THEN try_deserialize_cereal_type(v, uw.constraints)
       ELSE try_deserialize_cereal_type(v, << uw >>)
  ELSE v

(* The loop of lines 199-201 of auto_deserialize_hinted_nested.wrap: every  *)
(* hinted attribute, in the __dict__'s order (keys), is replaced in the     *)
(* __dict__ by its rebuilt value; the first exception leaves the loop.      *)
RECURSIVE deserialize_hinted(_, _, _)
deserialize_hinted(self, hints, keys) ==
  IF keys = << >> THEN self
  ELSE LET k == Head(keys) IN
       IF k \in DOMAIN hints /\ k \in DOMAIN self
       THEN LET r == recursive_auto_deserialize_hinted_nested(self[k], hints[k])
            IN  IF IsError(r) THEN r
                ELSE deserialize_hinted(Put(self, k, r), hints, Tail(keys))
       ELSE deserialize_hinted(self, hints, Tail(keys))

(* Cereal.check_nested_arguments: the default hook asserts True. *)
check_nested_arguments(self) == self

(* ------------------------------------------------------- the two classes *)

(* Inner.__init__(self, value: int, **kwargs), lines 302-304. A call        *)
(* without the required parameter is a TypeError.                           *)
InnerDeclared(raw) == __setattr__(EmptyMap, "value", raw["value"])
InnerKwargs(raw) == Without(raw, {"value"})
Inner__init__(raw) ==
  IF "value" \notin DOMAIN raw THEN Error("TypeError")
  ELSE Obj("Inner", Cereal__init__("Inner", InnerDeclared(raw), InnerKwargs(raw)))

(* get_type_hints(Outer.__init__): the annotated parameters. *)
OuterHints ==
  [k \in {"inner1", "inners", "value", "inner2", "thing"} |->
     CASE k = "inner1" -> Class("Inner")
       [] k = "inners" -> ListOf(<< Class("Inner") >>)
       [] k = "value" -> Class("int")
       [] k = "inner2" -> Optional(Class("Inner"))
       [] k = "thing" -> Optional(Class("TestEnum"))]

(* The order in which Outer's body creates the hinted attributes, which is  *)
(* the order the __dict__ keeps them in.                                    *)
OuterAttrOrder == << "inner1", "inner2", "inners", "value", "thing" >>

(* The attributes Outer's body assigns before the base constructor runs     *)
(* (lines 320-332); bval's setter stores under _bval, taken from the input  *)
(* key bval or else _bval.                                                  *)
OuterDeclared(raw) ==
  [k \in {"inner1", "inner2", "inners", "value", "thing", "value2", "inner3", "_bval"} |->
     CASE k \in {"inner1", "inners", "value"} -> raw[k]
       [] k \in {"inner2", "thing"} -> Get(raw, k, None)
       [] k \in {"value2", "inner3"} -> None
       [] k = "_bval" -> Get(raw, "bval", Get(raw, "_bval", None))]

(* What is left in kwargs when Outer's body calls the base constructor. *)
OuterKwargs(raw) ==
  Without(raw, {"inner1", "inner2", "inners", "value", "thing", "bval", "_bval"})

(* The body of Outer.__init__, lines 320-339: the __dict__ it leaves, or    *)
(* the exception of the nested Inner(...) of line 339.                      *)
Outer__init__body(raw) ==
  LET s == Cereal__init__("Outer", OuterDeclared(raw), OuterKwargs(raw))
  IN  IF s["inner3"].kind = "dict"
      THEN LET i == Construct("Inner", s["inner3"].d)
           IN  IF IsError(i) THEN i ELSE __setattr__(s, "inner3", i)
      ELSE s

(* Outer.__init__ as decorated by auto_deserialize_hinted_nested (wrap,     *)
(* lines 189-203): the body, the loop over the hinted attributes, the hook. *)
Outer__init__(raw) ==
  IF ~ ({"inner1", "inners", "value"} \subseteq DOMAIN raw) THEN Error("TypeError")
  ELSE LET b == Outer__init__body(raw)
       IN  IF IsError(b) THEN b
           ELSE LET r == deserialize_hinted(b, OuterHints, OuterAttrOrder)
                IN  IF IsError(r) THEN r ELSE Obj("Outer", check_nested_arguments(r))

(* Calling the Cereal class t with the mapping raw as keyword arguments. *)
Construct(t, raw) ==
  CASE t = "Inner" -> Inner__init__(raw)
    [] t = "Outer" -> Outer__init__(raw)

(* Cereal.__deepcopy__ *)
__deepcopy__(self) == Construct(self.type, dumps(self).d)

(* -------------------------------------------------------- bounded inputs *)

(* The longest list given for Outer's inners. *)
MaxLen == 2
(* The most attribute assignments made on one entity after construction. *)
MaxAssign == 2

(* A key that the input mapping does not carry. *)
Absent == [kind |-> "absent"]

(* The mapping of the choices c without its absent keys. *)
MkRaw(c) == [k \in {x \in DOMAIN c : c[x] # Absent} |-> c[k]]

(* Inner(n) built in code, its canonical record (which carries the tag      *)
(* "Inner"), the same record without its metadata, and the record with      *)
(* the tag of another class.                                                *)
LiveInner(n) == Construct("Inner", [value |-> Num(n)])
TaggedInner(n) == dumps(LiveInner(n))
UntaggedInner(n) == Dict([value |-> Num(n)])
MistaggedInner(n) == Dict([value |-> Num(n), _cereal_meta |-> NewMeta("Outer")])

(* A metadata block as an older canonical form may carry it. *)
StaleMeta ==
  Dict([missing_properties |-> List(<< Str("value2") >>),
        extra_properties |-> List(<< Str("note") >>),
        cereal_type |-> Str("Outer")])

ListsUpTo(S, n) == UNION {[1..m -> S] : m \in 0..n}

(* The input mappings given to Outer in the presence-tracking runs: the     *)
(* nested entities live or in canonical form, every optional key absent,    *)
(* null or given. The keys name attributes, as to_json writes them.         *)
OuterInputs ==
  {MkRaw(c) : c \in
     [inner1 : {LiveInner(1), TaggedInner(1)},
      inners : {List(<< TaggedInner(1), TaggedInner(2) >>)},
      value : {Num(3)},
      inner2 : {Absent, None, TaggedInner(2)},
      thing : {Absent, Str("thing1")},
      inner3 : {Absent, TaggedInner(3)},
      _bval : {Absent, Bool(TRUE)},
      extra_value : {Absent, None, Num(10)},
      _cereal_meta : {Absent, StaleMeta}]}

(* The input mappings given to Outer in the reconstruction runs: each       *)
(* hinted attribute live, as a record with the right tag, with no tag or    *)
(* with the tag of another class, or (thing) a name no member has.          *)
NestedForms == {LiveInner(1), TaggedInner(2), UntaggedInner(1), MistaggedInner(1)}
EngineInputs ==
  {MkRaw(c) : c \in
     [inner1 : NestedForms \cup {Absent},
      inners : {List(l) : l \in ListsUpTo({LiveInner(1), TaggedInner(2)}, MaxLen)},
      value : {Num(3)},
      inner2 : {Absent, None, TaggedInner(2), MistaggedInner(1)},
      thing : {Absent, Str("thing1"), Str("thing3"), EnumMember("TestEnum", "thing2")}]}

(* The input mappings given to Inner. *)
InnerInputs ==
  {MkRaw(c) : c \in [value : {Absent, Num(1)},
                     extra_value : {Absent, None, Num(10)},
                     _cereal_meta : {Absent, StaleMeta}]}

(* The attributes assigned in code after construction, and the values. *)
AssignKeys == {"inner2", "extra_value"}
AssignVals == {None, Num(7), TaggedInner(2)}

(* ----------------------------------------------------------- the machine *)

VARIABLES
  pc,         \* "new" before the constructor call, then "live" or "failed"
  self,       \* the entity (an obj), None before construction or on failure
  raw,        \* the mapping the constructor was called with
  err,        \* the class of the exception that left the last operation, or ""
  assigned,   \* the keys assigned in code since construction
  assignedNonNull, \* those of them that were given a non-null value
  nassign,    \* how many assignments were made
  op,         \* the last operation
  cpy,        \* the result of the last __deepcopy__, None when there is none
  before,     \* the entity before the last reconstruction pass, or None
  rv,         \* a value handed to recursive_auto_deserialize_hinted_nested
  rh,         \* the type hint handed over with it
  rres        \* what the call returned or raised, None before the call

evars == << pc, self, raw, err, assigned, assignedNonNull, nassign, cpy, before >>
rvars == << rv, rh, rres >>
vars == << evars, op, rvars >>

Init ==
  /\ pc = "new"
  /\ self = None
  /\ raw = EmptyMap
  /\ err = ""
  /\ assigned = {}
  /\ assignedNonNull = {}
  /\ nassign = 0
  /\ op = "none"
  /\ cpy = None
  /\ before = None
  /\ rv = None
  /\ rh = NoneType
  /\ rres = None

(* Calling the class t with the mapping input. An exception leaves no entity. *)
ConstructFrom(t, input) ==
  /\ pc = "new"
  /\ LET r == Construct(t, input)
     IN  /\ raw' = input
         /\ IF IsError(r)
            THEN pc' = "failed" /\ self' = None /\ err' = r.type
            ELSE pc' = "live" /\ self' = r /\ err' = ""
  /\ op' = "construct"
  /\ UNCHANGED << assigned, assignedNonNull, nassign, cpy, before, rvars >>

ConstructOuter == \E input \in OuterInputs : ConstructFrom("Outer", input)
ConstructInner == \E input \in InnerInputs : ConstructFrom("Inner", input)
ConstructNested == \E input \in EngineInputs : ConstructFrom("Outer", input)

(* entity.key = value in code, after construction. *)
SetAttr ==
  /\ pc = "live"
  /\ nassign < MaxAssign
  /\ \E key \in AssignKeys, value \in AssignVals :
       /\ self' = Obj(self.type, __setattr__(self.d, key, value))
       /\ assigned' = assigned \cup {key}
       /\ assignedNonNull' = IF value # None THEN assignedNonNull \cup {key}
                             ELSE assignedNonNull
  /\ nassign' = nassign + 1
  /\ op' = "setattr"
  /\ err' = ""
  /\ cpy' = None
  /\ before' = None
  /\ UNCHANGED << pc, raw, rvars >>

(* The type hints and attribute order the reconstruction pass of class t    *)
(* works from; Inner's constructor is not decorated and has no pass.        *)
HintsOf(t) == IF t = "Outer" THEN OuterHints ELSE EmptyMap
AttrOrderOf(t) == IF t = "Outer" THEN OuterAttrOrder ELSE << >>

(* The reconstruction pass (lines 199-203) applied to the live entity. *)
Reconstruct ==
  /\ pc = "live"
  /\ LET r == deserialize_hinted(self.d, HintsOf(self.type), AttrOrderOf(self.type))
     IN  IF IsError(r)
         THEN err' = r.type /\ self' = self
         ELSE err' = "" /\ self' = Obj(self.type, check_nested_arguments(r))
  /\ before' = self
  /\ op' = "reconstruct"
  /\ cpy' = None
  /\ UNCHANGED << pc, raw, assigned, assignedNonNull, nassign, rvars >>

(* copy.deepcopy(entity) *)
DeepCopy ==
  /\ pc = "live"
  /\ cpy' = __deepcopy__(self)
  /\ op' = "deepcopy"
  /\ err' = IF IsError(cpy') THEN cpy'.type ELSE ""
  /\ before' = None
  /\ UNCHANGED << pc, self, raw, assigned, assignedNonNull, nassign, rvars >>

(* Presence tracking over an entity's life: construction from decoded or    *)
(* programmatic input, assignments in code, deep copies.                    *)
Next == ConstructOuter \/ ConstructInner \/ SetAttr \/ DeepCopy

Spec == Init /\ [][Next]_vars

(* The reconstruction engine: construction from every form of nested        *)
(* value, assignments in code, and the reconstruction pass run again.       *)
NextEngine == ConstructNested \/ SetAttr \/ Reconstruct

SpecEngine == Init /\ [][NextEngine]_vars

(* ------------------------------------------- descriptor resolution alone *)

(* A live Outer and its canonical record, which carries the tag "Outer". *)
LiveOuter ==
  Construct("Outer", [inner1 |-> LiveInner(1), inners |-> List(<< >>), value |-> Num(3)])
TaggedOuter == dumps(LiveOuter)

(* The values and hints recursive_auto_deserialize_hinted_nested is called  *)
(* with: records with the tag of a candidate, of no candidate, with a       *)
(* metadata block that has no tag, with no metadata; non-records; lists.    *)
ResolveRecords ==
  { TaggedInner(1), TaggedOuter, UntaggedInner(1),
    Dict([value |-> Num(1), _cereal_meta |-> NewMeta("Other")]),
    Dict([value |-> Num(1), _cereal_meta |-> Dict(EmptyMap)]) }
ResolveValues ==
  ResolveRecords
    \cup {None, Num(1), Str("thing1"), Str("thing3"), LiveInner(1), LiveOuter}
    \cup {List(l) : l \in ListsUpTo({TaggedInner(1), TaggedOuter, LiveInner(1)}, MaxLen)}
ResolveHints ==
  { Class("Inner"), Class("Outer"), Class("int"), Class("TestEnum"),
    Optional(Class("Inner")), Optional(Class("TestEnum")),
    Union(<< Class("Inner"), Class("Outer") >>),
    Union(<< Class("Outer"), Class("Inner") >>),
    Union(<< Class("Inner"), Class("Outer"), NoneType >>),
    Union(<< Class("Inner"), Class("int") >>),
    TypeVar(<< Class("Inner"), Class("Outer") >>),
    TypeVar(<< >>),
    ListOf(<< Class("Inner") >>),
    ListOf(<< Union(<< Class("Inner"), Class("Outer") >>) >>),
    ListOf(<< Class("Inner"), Class("Outer") >>) }

InitResolve ==
  /\ Init!1 /\ Init!2 /\ Init!3 /\ Init!4 /\ Init!5
  /\ Init!6 /\ Init!7 /\ Init!8 /\ Init!9 /\ Init!10
  /\ rv \in ResolveValues
  /\ rh \in ResolveHints
  /\ rres = None

(* Cereal.recursive_auto_deserialize_hinted_nested(rv, rh) *)
Resolve ==
  /\ op = "none"
  /\ rres' = recursive_auto_deserialize_hinted_nested(rv, rh)
  /\ op' = "resolve"
  /\ UNCHANGED << evars, rv, rh >>

(* The same call on what the first call returned. *)
ResolveAgain ==
  /\ op = "resolve"
  /\ ~ IsError(rres)
  /\ rv' = rres
  /\ rres' = recursive_auto_deserialize_hinted_nested(rres, rh)
  /\ op' = "resolve again"
  /\ UNCHANGED << evars, rh >>

NextResolve == Resolve \/ ResolveAgain

SpecResolve == InitResolve /\ [][NextResolve]_vars

(* ---------------------------------------------------------------- claims *)

Live == pc = "live"
Fresh == pc = "live" /\ op = "construct"

(* What the entity's class assigned before the base constructor ran, and    *)
(* the mapping the base constructor was given.                              *)
DeclaredOf(t, input) == IF t = "Outer" THEN OuterDeclared(input) ELSE InnerDeclared(input)
KwargsOf(t, input) == IF t = "Outer" THEN OuterKwargs(input) ELSE InnerKwargs(input)
declared == DOMAIN DeclaredOf(self.type, raw)
present ==
  {k \in DOMAIN KwargsOf(self.type, raw) : KwargsOf(self.type, raw)[k] # None}
    \cup {k \in declared : DeclaredOf(self.type, raw)[k] # None}

missing_fields == missing_properties(self.d)
extra_fields == extra_properties(self.d)

(* The position of a name in Python's string order. *)
Rank(k) == CHOOSE i \in DOMAIN KeyOrder : KeyOrder[i] = k
IsSorted(names) ==
  \A i, j \in DOMAIN names : i < j => Rank(names[i]) < Rank(names[j])

(* C2: right after construction extra_fields is sorted(present - declared)  *)
(* and missing_fields is sorted(declared - present), the metadata key       *)
(* counted in neither, also when the input carries a metadata entry.        *)
C2_PresenceCheck ==
  Fresh =>
    /\ Range(extra_fields) = (present \ declared) \ {CEREAL_META}
    /\ Range(missing_fields) = (declared \ present) \ {CEREAL_META}
    /\ IsSorted(extra_fields)
    /\ IsSorted(missing_fields)

C2_Witness ==
  /\ Fresh
  /\ self.type = "Outer"
  /\ CEREAL_META \in DOMAIN raw
  /\ extra_fields = << "extra_value" >>
  /\ missing_fields = << "_bval", "inner2", "value2" >>

(* C3: a declared field the input lacks is in missing_fields after          *)
(* construction; once it has been assigned a non-null value it is in        *)
(* neither list, whatever is assigned afterwards.                           *)
C3_PresenceSymmetry ==
  Live =>
    \A f \in declared \ DOMAIN raw :
      /\ nassign = 0 => f \in Range(missing_fields)
      /\ f \in assignedNonNull =>
           f \notin Range(missing_fields) /\ f \notin Range(extra_fields)

C3_Witness ==
  /\ Live
  /\ "inner2" \in declared \ DOMAIN raw
  /\ "inner2" \in assignedNonNull
  /\ nassign = MaxAssign
  /\ self.d["inner2"] = None

(* The undeclared keys the input gave a non-null value (the metadata key    *)
(* is not a field: C2).                                                     *)
UndeclaredGiven ==
  {g \in DOMAIN KwargsOf(self.type, raw) \ (declared \cup {CEREAL_META}) :
     KwargsOf(self.type, raw)[g] # None}

(* C4: an undeclared key g given non-null in the input is in extra_fields   *)
(* from the end of construction, through assignments to other fields,       *)
(* until g is first assigned in code, and never after.                      *)
C4_ExtraTracking ==
  Live => \A g \in UndeclaredGiven : g \in Range(extra_fields) <=> g \notin assigned

C4_Witness ==
  /\ Live
  /\ "extra_value" \in UndeclaredGiven
  /\ assigned = {"inner2"}
  /\ nassign = MaxAssign
  /\ "extra_value" \in Range(extra_fields)

C4_WitnessAfter ==
  /\ Live
  /\ "extra_value" \in UndeclaredGiven
  /\ "extra_value" \in assigned
  /\ "extra_value" \notin Range(extra_fields)

(* The declared fields that were null or absent at construction. *)
MissingAtConstruction ==
  {f \in declared : DeclaredOf(self.type, raw)[f] = None
                      /\ Get(KwargsOf(self.type, raw), f, None) = None}

(* C10 as stated: missing_fields is the declared fields null or absent at   *)
(* construction and not since assigned a non-null value.                    *)
C10_MissingUntilNonNull ==
  Live => Range(missing_fields) = MissingAtConstruction \ assignedNonNull

(* C10 as amended: missing_fields is the declared fields null or absent at  *)
(* construction and not since assigned any value, null included.            *)
C10_MissingUntilAssigned ==
  Live => Range(missing_fields) = MissingAtConstruction \ assigned

C10_Witness ==
  /\ Live
  /\ "inner2" \in MissingAtConstruction
  /\ "inner2" \in assigned \ assignedNonNull
  /\ "inner2" \notin Range(missing_fields)

(* The type tag a raw record carries, None when it carries none. *)
TagOf(v) ==
  IF /\ v.kind = "dict"
     /\ CEREAL_META \in DOMAIN v.d
     /\ v.d[CEREAL_META].kind = "dict"
     /\ CEREAL_TYPE \in DOMAIN v.d[CEREAL_META].d
  THEN v.d[CEREAL_META].d[CEREAL_TYPE]
  ELSE None

IsInstance(v, t) == v.kind = "obj" /\ v.type = t

(* to_canonical(entity): the mapping the encoder writes for it. *)
to_canonical(e) == dumps(e).d

(* Every live entity of a value: itself, and those nested in it. *)
RECURSIVE Entities(_)
Entities(v) ==
  CASE v.kind = "obj" -> {v} \cup UNION {Entities(v.d[k]) : k \in DOMAIN v.d}
    [] v.kind = "dict" -> UNION {Entities(v.d[k]) : k \in DOMAIN v.d}
    [] v.kind = "list" -> UNION {Entities(v.s[i]) : i \in DOMAIN v.s}
    [] OTHER -> {}

(* An Inner or Outer whose declared fields hold what they are declared to   *)
(* hold; undeclared attributes hold anything.                               *)
WellTypedInner(v) == IsInstance(v, "Inner") /\ v.d["value"].kind = "num"
WellTyped(e) ==
  IF e.type = "Inner" THEN WellTypedInner(e)
  ELSE /\ WellTypedInner(e.d["inner1"])
       /\ e.d["inners"].kind = "list"
       /\ \A i \in DOMAIN e.d["inners"].s : WellTypedInner(e.d["inners"].s[i])
       /\ e.d["value"].kind = "num"
       /\ e.d["inner2"] = None \/ WellTypedInner(e.d["inner2"])
       /\ e.d["thing"].kind \in {"none", "enum"}
       /\ e.d["value2"].kind \in {"none", "num"}
       /\ e.d["inner3"] = None \/ WellTypedInner(e.d["inner3"])
       /\ e.d["_bval"].kind \in {"none", "bool"}

(* C1: the deep copy of a well-typed entity, that is the entity built from  *)
(* its canonical mapping, exists and equals the entity.                     *)
C1_RoundTrip ==
  (Live /\ op = "deepcopy" /\ WellTyped(self)) =>
     cpy.kind = "obj" /\ __eq__(cpy, self) = Bool(TRUE)

(* The same for an entity no attribute of which was assigned after its      *)
(* construction.                                                            *)
C1_RoundTripUnassigned ==
  (Live /\ op = "deepcopy" /\ WellTyped(self) /\ nassign = 0) =>
     cpy.kind = "obj" /\ __eq__(cpy, self) = Bool(TRUE)

(* C6: an Optional[Inner] field given null or left out is null on the       *)
(* entity and absent from the canonical mapping; given a record tagged      *)
(* Inner it holds an Inner; and the canonical mapping has a field exactly   *)
(* when the field's value is non-null.                                      *)
C6_OptionalOmitNull ==
  Live =>
    /\ (Fresh /\ self.type = "Outer" /\ Get(raw, "inner2", None) = None) =>
          self.d["inner2"] = None /\ "inner2" \notin DOMAIN to_canonical(self)
    /\ (Fresh /\ self.type = "Outer" /\ TagOf(Get(raw, "inner2", None)) = Str("Inner")) =>
          IsInstance(self.d["inner2"], "Inner")
    /\ DOMAIN to_canonical(self) = {k \in DOMAIN self.d : self.d[k] # None}

C6_Witness ==
  /\ Fresh
  /\ self.type = "Outer"
  /\ "inner2" \in DOMAIN raw
  /\ raw["inner2"] = None
  /\ "inner2" \in DOMAIN self.d
  /\ "inner2" \notin DOMAIN to_canonical(self)

C6_WitnessRecord ==
  /\ Fresh
  /\ self.type = "Outer"
  /\ Get(raw, "inner2", None) = TaggedInner(2)
  /\ self.d["inner2"] = LiveInner(2)
  /\ "inner2" \in DOMAIN to_canonical(self)

(* C8 as stated: no canonical mapping, of the entity or of an entity        *)
(* nested in it, has an entry under the metadata key.                       *)
C8_NoMetadataEntry ==
  Live => \A e \in Entities(self) : CEREAL_META \notin DOMAIN to_canonical(e)

(* C8 as amended: every canonical mapping, of the entity and of each        *)
(* entity nested in it, has the entity's metadata block (its two presence   *)
(* lists and its type tag) under the metadata key, and the metadata key is  *)
(* in neither presence list.                                                *)
C8_MetadataSerializedNotCounted ==
  Live =>
    \A e \in Entities(self) :
      /\ CEREAL_META \in DOMAIN to_canonical(e)
      /\ to_canonical(e)[CEREAL_META] = e.d[CEREAL_META]
      /\ TagOf(dumps(e)) = Str(e.type)
      /\ CEREAL_META \notin Range(missing_properties(e.d)) \cup Range(extra_properties(e.d))

C8_Witness ==
  /\ Live
  /\ CEREAL_META \in DOMAIN raw
  /\ nassign > 0
  /\ Cardinality(Entities(self)) > 2
  /\ extra_fields # << >>

(* Outer's hinted attributes all rebuilt: live entities, a list of live     *)
(* entities, an Enum member, null, a number.                                *)
FullyReconstructed(e) ==
  /\ e.type = "Outer"
  /\ e.d["inner1"].kind = "obj"
  /\ e.d["inners"].kind = "list"
  /\ \A i \in DOMAIN e.d["inners"].s : e.d["inners"].s[i].kind = "obj"
  /\ e.d["inner2"].kind \in {"none", "obj"}
  /\ e.d["thing"].kind \in {"none", "enum"}
  /\ e.d["value"].kind = "num"

(* C7: the reconstruction pass on an entity whose hinted fields are all     *)
(* rebuilt raises nothing and leaves the entity, its presence lists         *)
(* included, as it was; a second pass changes nothing either.               *)
C7_IdempotentReconstruction ==
  (Live /\ op = "reconstruct" /\ FullyReconstructed(before)) =>
     /\ err = ""
     /\ self = before
     /\ deserialize_hinted(self.d, HintsOf(self.type), AttrOrderOf(self.type)) = self.d

C7_Witness ==
  /\ Live
  /\ op = "reconstruct"
  /\ FullyReconstructed(before)
  /\ before.d["inner2"].kind = "obj"
  /\ before.d["thing"].kind = "enum"
  /\ before.d["inners"].s # << >>
  /\ missing_properties(before.d) # << >>
  /\ self = before

(* The pass is not a no-op on an entity that holds a raw record. *)
C7_PassRebuilds ==
  /\ Live
  /\ op = "reconstruct"
  /\ ~ FullyReconstructed(before)
  /\ self # before

(* C9 as stated: a raw record in inner1 (declared Inner), tagged or not,    *)
(* is replaced by an Inner.                                                 *)
C9_AnyRecordRebuilt ==
  (Fresh /\ "inner1" \in DOMAIN raw /\ raw["inner1"].kind = "dict") =>
     IsInstance(self.d["inner1"], "Inner")

(* C9 as amended: a raw record in inner1 that carries the tag "Inner" is    *)
(* replaced by an Inner built from it (Inner's own presence check having    *)
(* run); a record without a tag stays the raw record; a record with         *)
(* another tag aborts the construction with a CerealError; an instance      *)
(* stays as it is.                                                          *)
C9_TaggedRecordRebuilt ==
  (op = "construct" /\ "inner1" \in DOMAIN raw) =>
    LET given == raw["inner1"] IN
    /\ (Fresh /\ given.kind = "dict" /\ TagOf(given) = Str("Inner")) =>
          /\ IsInstance(self.d["inner1"], "Inner")
          /\ self.d["inner1"].d["value"] = given.d["value"]
          /\ missing_properties(self.d["inner1"].d) = << >>
          /\ extra_properties(self.d["inner1"].d) = << >>
    /\ (Fresh /\ given.kind = "dict" /\ TagOf(given) = None) => self.d["inner1"] = given
    /\ (Fresh /\ given.kind = "obj") => self.d["inner1"] = given
    /\ (given.kind = "dict" /\ TagOf(given) \notin {None, Str("Inner")}) =>
          pc = "failed" /\ err = "CerealError"

C9_Witness ==
  /\ Fresh
  /\ Get(raw, "inner1", None) = TaggedInner(2)
  /\ self.d["inner1"] = LiveInner(2)

C9_WitnessUntagged ==
  /\ Fresh
  /\ Get(raw, "inner1", None) = UntaggedInner(1)
  /\ self.d["inner1"] = UntaggedInner(1)

(* The candidate classes of a one-of hint: the Cereal classes among a       *)
(* Union's arguments or a TypeVar's constraints.                            *)
IsOneOf(h) == h.h = "Union" \/ (h.h = "TypeVar" /\ Len(h.constraints) > 0)
Candidates(h) ==
  LET cs == IF h.h = "Union" THEN h.args ELSE h.constraints
  IN  {cs[i].name : i \in {j \in DOMAIN cs : IsCerealClass(cs[j])}}

(* C5: a raw record resolved against a one-of hint becomes an instance of   *)
(* the candidate its tag names; a tag that names no candidate raises        *)
(* CerealError; a record without a tag is returned as it is.                *)
C5_PolymorphicResolution ==
  (op # "none" /\ rres # None /\ rv.kind = "dict" /\ IsOneOf(rh)) =>
    LET tag == TagOf(rv) IN
    /\ (tag # None /\ tag.v \in Candidates(rh)) => IsInstance(rres, tag.v)
    /\ (tag # None /\ tag.v \notin Candidates(rh)) => rres = Error("CerealError")
    /\ (tag = None) => rres = rv

C5_Witness ==
  /\ op = "resolve"
  /\ rh = Union(<< Class("Inner"), Class("Outer") >>)
  /\ rv = TaggedOuter
  /\ rres = LiveOuter

C5_WitnessMismatch ==
  /\ op = "resolve"
  /\ rh = TypeVar(<< Class("Inner"), Class("Outer") >>)
  /\ TagOf(rv) = Str("Other")
  /\ rres = Error("CerealError")

C5_WitnessUntagged ==
  /\ op = "resolve"
  /\ rh = Union(<< Class("Inner"), Class("Outer") >>)
  /\ rv = UntaggedInner(1)
  /\ rres = rv

====
